---- MODULE Spec2Model ----
(***************************************************************************)
(* RCAT main script (src/scripts/main.py): the grid remapping and          *)
(* re-chunking core.                                                       *)
(*                                                                         *)
(*   Spec        remap_func: which participants are regridded onto which   *)
(*               grid, and what is recorded in gdict                       *)
(*   SpecChunks  manage_chunks: the chunk plan in 'space' and 'time' mode  *)
(*   SpecRegrid  regridding / get_grids / _rgr_calc: the blockwise sparse  *)
(*               matrix application                                        *)
(*   SpecDomain  get_grid_coords / _domain: the domain polygon             *)
(*   SpecObs     get_obs_data: the ordering of the observation grid        *)
(*   SpecStats   calc_stats / get_masked_data: domain and region           *)
(*               statistics                                                *)
(***************************************************************************)
EXTENDS Integers, Sequences, FiniteSets, TLC

VARIABLES
    \* ---- remap_func (Spec)
    dd,         \* dd[name] = [data, grid, gridname], data_dict[tres][var]
    gdict,      \* grid_coords['target grid'][var]
    vconf,      \* [regrid, rgr_method]
    mnames,     \* list of model names
    onames,     \* list of observation names, <<None>> when there is none
    rpc,        \* "call" | "returned" | "raised"
    \* ---- manage_chunks (SpecChunks)
    cdata,      \* the dataset handed to manage_chunks
    chunk_dim,  \* 'space' | 'time'
    cout,       \* the dataset manage_chunks returns
    cpc,        \* "call" | "returned"
    \* ---- regridding (SpecRegrid)
    indata,       \* data[data_name]['data']
    target_grid,  \* the grid to regrid onto: [lon, lat]
    method,       \* the regridding method
    xe_weights,   \* the weight matrix xe.Regridder builds for the two grids
    grids,        \* what get_grids returned
    A,            \* regridder.A, the matrix handed to every block
    blockout,     \* blockout[b]: the output of _rgr_calc on time block b
    completed,    \* the blocks in the order their tasks completed
    dset,         \* the dataset regridding returns
    gpc,          \* "call" | "blocks" | "returned"
    \* ---- get_grid_coords (SpecDomain)
    nc_lat,       \* nc.lat.values
    nc_lon,       \* nc.lon.values
    gp_bfr,       \* the margin handed to _domain
    grid_coords,  \* the dictionary get_grid_coords fills
    dpc,          \* "call" | "returned"
    \* ---- get_obs_data (SpecObs)
    obs_lons,     \* obs_data.lon.values as read from the files
    obs_lats,     \* obs_data.lat.values as read from the files
    obs_data,     \* the opened dataset: the order of its x and y labels
    obs_grid,     \* obs_dict[var][obs]['grid']
    outdata,      \* what get_obs_data returns
    opc,          \* "call" | "returned" | "raised"
    \* ---- calc_stats (SpecStats)
    ddict,        \* ddict[f][v]: participant -> NoData or [data]
    stats_config, \* stats_config[stat]
    pool,         \* the 'pool data' flag of the statistic
    schunk_dim,   \* the 'chunk dimension' of the statistic
    regions,      \* the configured regions, None when there is none
    todo,         \* the participants the loop has still to visit
    mdata,        \* the last pass with data: its data, its masks and what
                  \* its get_masked_data calls returned
    st_data,      \* st_data[v]
    spc           \* "loop" | "returned"

remapvars == <<dd, gdict, vconf, mnames, onames, rpc>>
chunkvars == <<cdata, chunk_dim, cout, cpc>>
regridvars == <<indata, target_grid, method, xe_weights, grids, A, blockout,
                completed, dset, gpc>>
domainvars == <<nc_lat, nc_lon, gp_bfr, grid_coords, dpc>>
obsvars == <<obs_lons, obs_lats, obs_data, obs_grid, outdata, opc>>
statsvars == <<ddict, stats_config, pool, schunk_dim, regions, todo, mdata,
               st_data, spc>>
vars == <<remapvars, chunkvars, regridvars, domainvars, obsvars, statsvars>>

None == "None"

\* The variables of a part of the program that a specification does not run.
Idle == "idle"
RemapIdle == /\ dd = Idle /\ gdict = Idle /\ vconf = Idle
             /\ mnames = Idle /\ onames = Idle /\ rpc = Idle
ChunkIdle == cdata = Idle /\ chunk_dim = Idle /\ cout = Idle /\ cpc = Idle
RegridIdle == /\ indata = Idle /\ target_grid = Idle /\ method = Idle
              /\ xe_weights = Idle /\ grids = Idle /\ A = Idle
              /\ blockout = Idle /\ completed = Idle /\ dset = Idle
              /\ gpc = Idle
DomainIdle == /\ nc_lat = Idle /\ nc_lon = Idle /\ gp_bfr = Idle
              /\ grid_coords = Idle /\ dpc = Idle
ObsIdle == /\ obs_lons = Idle /\ obs_lats = Idle /\ obs_data = Idle
           /\ obs_grid = Idle /\ outdata = Idle /\ opc = Idle
StatsIdle == /\ ddict = Idle /\ stats_config = Idle /\ pool = Idle
             /\ schunk_dim = Idle /\ regions = Idle /\ todo = Idle
             /\ mdata = Idle /\ st_data = Idle /\ spc = Idle

Range(s) == {s[i] : i \in 1..Len(s)}

(***************************************************************************)
(*                              remap_func                                 *)
(***************************************************************************)

\* Bound: the longest list of model names and of observation names.
MaxNames == 2

ModelNames == {"mod1", "mod2", "mod3"}
ObsNames == {"obs1", "obs2", "obs3"}
Names == ModelNames \cup ObsNames
Methods == {"bilinear", "conservative"}

\* Lists of distinct names, as the keys of cdict['models'] and the configured
\* observation list are.
NameLists(S) ==
    {s \in UNION {[1..n -> S] : n \in 1..MaxNames} :
        \A i, j \in 1..Len(s) : i # j => s[i] # s[j]}

\* get_mod_data / get_obs_data: what the loader puts in dd for a participant.
\* Coordinate arrays, values and time axes are symbolic: <<kind, owner>>.
LoadedGrid(p) == [lon |-> <<"lon", p>>, lat |-> <<"lat", p>>]
LoadedData(p) ==
    [vals |-> <<"native", p>>, lon |-> <<"lon", p>>, lat |-> <<"lat", p>>,
     time |-> <<"time", p>>]
Loaded(p) ==
    [data |-> LoadedData(p), grid |-> LoadedGrid(p),
     gridname |-> <<"grid", p>>]

\* regridding(), seen from remap_func: a dataset holding the source's values
\* regridded by the method, on the target grid's lon/lat, with the input's time.
regridding(data, data_name, tg, meth) ==
    LET nc == data[data_name].data IN
    [vals |-> <<"rgr", nc.vals, meth, tg.lon, tg.lat>>,
     lon |-> tg.lon, lat |-> tg.lat, time |-> nc.time]

\* list.remove(x): the list without its first x.
ListRemove(s, x) ==
    LET i == CHOOSE k \in 1..Len(s) : s[k] = x /\ \A l \in 1..(k-1) : s[l] # x
    IN  [k \in 1..(Len(s)-1) |-> IF k < i THEN s[k] ELSE s[k+1]]

\* The loop `for n in names: dd[n]['data'] = regridding(dd, n, ...)`.
RECURSIVE RegridLoop(_, _, _, _)
RegridLoop(d, names, tg, meth) ==
    IF names = <<>> THEN d
    ELSE RegridLoop(
            [d EXCEPT ![Head(names)].data =
                regridding(d, Head(names), tg, meth)],
            Tail(names), tg, meth)

NoEntry == <<>>
EmptyGdict ==
    [lon |-> [n \in Names |-> NoEntry], lat |-> [n \in Names |-> NoEntry],
     gridname |-> NoEntry]

\* gdict.update({'lon': {...}, 'lat': {...}}) with the grids of `keys`: the
\* update replaces the whole 'lon' and 'lat' entries.
GdictGrids(g, d, keys) ==
    [g EXCEPT !.lon = [n \in Names |-> IF n \in keys THEN d[n].grid.lon
                                       ELSE NoEntry],
              !.lat = [n \in Names |-> IF n \in keys THEN d[n].grid.lat
                                       ELSE NoEntry]]

\* Lines 153-161: no regridding, every participant's own grid is recorded.
NativeObsKeys_ModelsOnly(on) == {}
NativeObsKeys(on) == IF None \notin Range(on) THEN Range(on) ELSE {}
RemapNative(d, g, mn, on) ==
    [dd |-> d,
     gdict |-> GdictGrids(g, d, Range(mn) \cup NativeObsKeys(on)),
     gridname |-> <<"native_grid">>]

\* Lines 174-176: the observations regridded when the target is one of them.
ObsTargetObslist_KeepTarget(on, oname) == IF Len(on) > 1 THEN on ELSE <<>>
ObsTargetObslist(on, oname) ==
    IF Len(on) > 1 THEN ListRemove(on, oname) ELSE <<>>
\* Lines 163-180.
RemapToObs(d, g, mn, on, oname, meth) ==
    LET tg == d[oname].grid
        d1 == RegridLoop(d, mn, tg, meth)
        d2 == RegridLoop(d1, ObsTargetObslist(on, oname), tg, meth)
    IN  [dd |-> d2, gdict |-> GdictGrids(g, d, {oname}),
         gridname |-> d[oname].gridname]

\* Lines 183-184 and 193-194: who is regridded when the target is a model.
ModTargetModlist_KeepTarget(mn, mname) == mn
ModTargetModlist(mn, mname) == ListRemove(mn, mname)
ModTargetObslist(on) == IF None \notin Range(on) THEN on ELSE <<>>
\* Lines 181-197.
RemapToModel(d, g, mn, on, mname, meth) ==
    LET tg == d[mname].grid
        d1 == RegridLoop(d, ModTargetModlist(mn, mname), tg, meth)
        d2 == RegridLoop(d1, ModTargetObslist(on), tg, meth)
    IN  [dd |-> d2, gdict |-> GdictGrids(g, d, {mname}),
         gridname |-> d[mname].gridname]

\* Lines 162-198 when the target is in neither list: no branch is taken, so
\* no regridding() call is made and no gdict.update() is done.
RemapUnknown_NativeGrids(d, g, mn, on) ==
    [dd |-> d, gdict |-> GdictGrids(g, d, Range(mn))]
RemapUnknown(d, g, mn, on) == [dd |-> d, gdict |-> g]

\* remap_func, lines 152-201. In the last case `gridname` was never bound and
\* line 199 raises UnboundLocalError: nothing was regridded or recorded.
remap_func ==
    /\ rpc = "call"
    /\ \/ /\ vconf.regrid = None
          /\ LET r == RemapNative(dd, gdict, mnames, onames) IN
             /\ dd' = r.dd
             /\ gdict' = [r.gdict EXCEPT !.gridname = r.gridname]
             /\ rpc' = "returned"
       \/ /\ vconf.regrid # None
          /\ vconf.regrid \in Range(onames)
          /\ LET r == RemapToObs(dd, gdict, mnames, onames, vconf.regrid,
                                 vconf.rgr_method) IN
             /\ dd' = r.dd
             /\ gdict' = [r.gdict EXCEPT !.gridname = r.gridname]
             /\ rpc' = "returned"
       \/ /\ vconf.regrid # None
          /\ vconf.regrid \notin Range(onames)
          /\ vconf.regrid \in Range(mnames)
          /\ LET r == RemapToModel(dd, gdict, mnames, onames, vconf.regrid,
                                   vconf.rgr_method) IN
             /\ dd' = r.dd
             /\ gdict' = [r.gdict EXCEPT !.gridname = r.gridname]
             /\ rpc' = "returned"
       \/ /\ vconf.regrid # None
          /\ vconf.regrid \notin Range(onames)
          /\ vconf.regrid \notin Range(mnames)
          /\ LET r == RemapUnknown(dd, gdict, mnames, onames) IN
             /\ dd' = r.dd
             /\ gdict' = r.gdict
             /\ rpc' = "raised"
    /\ UNCHANGED <<vconf, mnames, onames>>

\* The main script up to the call of remap_func (lines 688-734): the
\* configured names, the loaded data and an empty target-grid dictionary.
RemapInit ==
    /\ mnames \in NameLists(ModelNames)
    /\ onames \in NameLists(ObsNames) \cup {<<None>>}
    /\ vconf \in [regrid : Names \cup {None}, rgr_method : Methods]
    /\ dd = [n \in Names |->
                IF n \in Range(mnames) \cup Range(onames) THEN Loaded(n)
                ELSE [data |-> NoEntry, grid |-> NoEntry, gridname |-> NoEntry]]
    /\ gdict = EmptyGdict
    /\ rpc = "call"

Init ==
    RemapInit /\ ChunkIdle /\ RegridIdle /\ DomainIdle /\ ObsIdle /\ StatsIdle
Next ==
    remap_func
    /\ UNCHANGED <<chunkvars, regridvars, domainvars, obsvars, statsvars>>
Spec == Init /\ [][Next]_vars

(***************************************************************************)
(*                             manage_chunks                               *)
(***************************************************************************)

\* Bound: the largest number of time steps per input file, which is the size
\* of the time blocks the data is loaded with.
MaxFileSteps == 2

cmax == 500          \* line 400
tchunk_max == 500    \* line 406
tchunk_div == 500    \* line 407

\* spcdim, lines 391-392.
spcdim == [x |-> <<"x", "X", "lon", "rlon">>, y |-> <<"y", "Y", "lat", "rlat">>]

\* Grid sizes and lengths of the time axis of the datasets handed in.
SpaceSizes == {10, 100, 500, 1000}
TimeSizes == {500, 501, 749, 750, 1249, 10000}
SpaceDims == {<<"y", "x">>, <<"rlat", "rlon">>}

Max(a, b) == IF a >= b THEN a ELSE b
Min(a, b) == IF a <= b THEN a ELSE b

\* The blocks dask cuts an axis of n elements into for a chunk size c: blocks
\* of c elements and a shorter last one; one block when c >= n.
Blocks(n, c) ==
    LET full == n \div c
        rest == n % c
    IN  [i \in 1..(full + (IF rest > 0 THEN 1 ELSE 0)) |->
            IF i <= full THEN c ELSE rest]

\* floor(sqrt(n)) by bisection; lo*lo <= n < hi*hi throughout.
RECURSIVE ISqrtIn(_, _, _)
ISqrtIn(n, lo, hi) ==
    IF hi - lo <= 1 THEN lo
    ELSE LET mid == (lo + hi) \div 2 IN
         IF mid <= n \div mid THEN ISqrtIn(n, mid, hi) ELSE ISqrtIn(n, lo, mid)
ISqrt(n) == ISqrtIn(n, 0, n + 1)

\* np.round(a / b) for positive integers: to the nearest, a tie to the even one.
RoundDiv(a, b) ==
    LET q == a \div b
        r2 == 2 * (a % b)
    IN  IF r2 < b THEN q
        ELSE IF r2 > b THEN q + 1
        ELSE IF q % 2 = 0 THEN q ELSE q + 1

\* Lines 401-402: n = sqrt(xsize*ysize/cmax), c_size = round(max(xsize,ysize)/n).
\* With M the larger and m the smaller size, max/n = sqrt(cmax*M/m), and
\* round(v) = floor((floor(2v) + 1) / 2) where floor(2v) = isqrt(4*cmax*M/m);
\* an exact tie (2v an odd integer) goes to the even neighbour in exact
\* arithmetic; in the code the floating-point error of sqrt decides it. No
\* pair of SpaceSizes is a tie.
c_size(xsize, ysize) ==
    LET M == Max(xsize, ysize)
        m == Min(xsize, ysize)
        num == 4 * cmax * M
        s == ISqrt(num \div m)
        tie == num % m = 0 /\ s * s = num \div m /\ s % 2 = 1
    IN  IF tie /\ ((s + 1) \div 2) % 2 = 1 THEN (s - 1) \div 2
        ELSE (s + 1) \div 2

\* Lines 393-394: the first dimension of the data that is an x (y) alias.
SpaceDim(data, axis) ==
    LET al == spcdim[axis]
        i == CHOOSE k \in 1..Len(data.dims) :
                /\ data.dims[k] \in Range(al)
                /\ \A l \in 1..(k-1) : data.dims[l] \notin Range(al)
    IN  data.dims[i]

\* data.chunk({...}): the named dimensions are cut anew, the others kept.
Chunk(data, sizes) ==
    [data EXCEPT !.chunks =
        [d \in DOMAIN data.chunks |->
            IF d \in DOMAIN sizes THEN Blocks(data.sizes[d], sizes[d])
            ELSE data.chunks[d]]]

\* Lines 387-403.
ChunkSpace(data) ==
    LET xd == SpaceDim(data, "x")
        yd == SpaceDim(data, "y")
        c == c_size(data.sizes[xd], data.sizes[yd])
    IN  Chunk(data, [d \in {"time", xd, yd} |->
                        IF d = "time" THEN data.sizes["time"] ELSE c])

\* Line 406.
TimeNeedsRechunk_Fifty(nchunks) == nchunks > 50
TimeNeedsRechunk(nchunks) == nchunks > tchunk_max
\* Line 407.
rchunk_size(ntime) == RoundDiv(ntime, tchunk_div)
\* Lines 405-408.
ChunkTime(data) ==
    IF TimeNeedsRechunk(Len(data.chunks["time"]))
    THEN Chunk(data, [d \in {"time"} |-> rchunk_size(data.sizes["time"])])
    ELSE data

\* manage_chunks, lines 383-410.
manage_chunks ==
    /\ cpc = "call"
    /\ cout' = IF chunk_dim = "space" THEN ChunkSpace(cdata) ELSE ChunkTime(cdata)
    /\ cpc' = "returned"
    /\ UNCHANGED <<cdata, chunk_dim>>

\* A dataset as calc_stats hands it in: dimensions (time, y, x), time in the
\* blocks it was loaded with, space in one block, values symbolic.
Dataset(dims, nt, ny, nx, fsteps) ==
    LET yd == dims[1]
        xd == dims[2]
        ds == {"time", yd, xd}
    IN  [dims |-> <<"time", yd, xd>>,
         sizes |-> [d \in ds |-> IF d = "time" THEN nt
                                 ELSE IF d = yd THEN ny ELSE nx],
         chunks |-> [d \in ds |-> IF d = "time" THEN Blocks(nt, fsteps)
                                  ELSE IF d = yd THEN <<ny>> ELSE <<nx>>],
         vals |-> <<"values", nt, ny, nx>>]

ChunkInit ==
    /\ \E dims \in SpaceDims, nt \in TimeSizes, ny \in SpaceSizes,
          nx \in SpaceSizes :
         \E fsteps \in (1..MaxFileSteps) \cup {nt} :
            cdata = Dataset(dims, nt, ny, nx, fsteps)
    /\ chunk_dim \in {"space", "time"}
    /\ cout = NoEntry
    /\ cpc = "call"

InitChunks ==
    ChunkInit /\ RemapIdle /\ RegridIdle /\ DomainIdle /\ ObsIdle /\ StatsIdle
NextChunks ==
    manage_chunks
    /\ UNCHANGED <<remapvars, regridvars, domainvars, obsvars, statsvars>>
SpecChunks == InitChunks /\ [][NextChunks]_vars

(***************************************************************************)
(*                  regridding, get_grids and _rgr_calc                    *)
(***************************************************************************)

\* Bounds: the time steps of a dataset and the cells of a grid.
MaxT == 2
MaxCells == 4
\* The numbers of source cells a target cell may overlap.
Stencils == {1, 2}

\* np.nan among the values; every other value is a natural number.
NaN == -1
Mul(a, b) == IF a = NaN \/ b = NaN THEN NaN ELSE a * b
Add(a, b) == IF a = NaN \/ b = NaN THEN NaN ELSE a + b

RECURSIVE Prod(_)
Prod(shape) == IF shape = <<>> THEN 1 ELSE Head(shape) * Prod(Tail(shape))
RECURSIVE SumSeq(_)
SumSeq(q) == IF q = <<>> THEN 0 ELSE Head(q) + SumSeq(Tail(q))

\* An n-dimensional array is its shape and its elements in row-major (C)
\* order, the order numpy reshapes in.
Array(shape, flat) == [shape |-> shape, flat |-> flat]
\* Element (i, j) of a 2D array, indices from 0.
At2(a, i, j) == a.flat[i * a.shape[2] + j + 1]

\* ndarray.reshape: the same elements in the same order under another shape.
Reshape(a, shape) == Array(shape, a.flat)

\* ndarray.T of a 2D array.
Transpose(a) ==
    LET r == a.shape[2]
        c == a.shape[1]
    IN  Array(<<r, c>>, [n \in 1..(r * c) |-> At2(a, (n-1) % c, (n-1) \div c)])

\* Row i of M times column j of B, adding only the entries M stores (the
\* non-zero ones): cells k .. m-1.
RECURSIVE SparseRowDot(_, _, _, _, _)
SparseRowDot(M, B, i, j, k) ==
    IF k >= M.shape[2] THEN 0
    ELSE LET rest == SparseRowDot(M, B, i, j, k + 1) IN
         IF At2(M, i, k) = 0 THEN rest
         ELSE Add(Mul(At2(M, i, k), At2(B, k, j)), rest)

\* scipy.sparse matrix .dot(dense 2D array).
SparseDot(M, B) ==
    LET n == M.shape[1]
        p == B.shape[2]
    IN  Array(<<n, p>>, [x \in 1..(n * p) |->
                            SparseRowDot(M, B, (x-1) \div p, (x-1) % p, 0)])

\* Line 240: data.reshape(-1, Ny_in*Nx_in).
FlattenSpace(data) ==
    LET s == data.shape
        cells == s[Len(s) - 1] * s[Len(s)]
    IN  Reshape(data, <<Prod(s) \div cells, cells>>)
\* Line 241: A.dot(indata_flat.T).T
ApplyMatrix_NoTranspose(M, indata_flat) == SparseDot(M, Transpose(indata_flat))
ApplyMatrix(M, indata_flat) == Transpose(SparseDot(M, Transpose(indata_flat)))
\* Lines 242-244: reshape([*N_extra_list, Ny_out, Nx_out]).
UnflattenSpace(outdata_flat, s, out_dims) ==
    Reshape(outdata_flat, SubSeq(s, 1, Len(s) - 2) \o out_dims)

\* _rgr_calc, lines 233-246.
_rgr_calc(data, M, out_dims) ==
    UnflattenSpace(ApplyMatrix(M, FlattenSpace(data)), data.shape, out_dims)

\* A coordinate array: its name and shape (1D or 2D); the values play no part.
Coord(name, shape) == [name |-> name, shape |-> shape]
Ndim(c) == Len(c.shape)
Size(c) == Prod(c.shape)

\* remap.fnCellCorners: the corner arrays of a grid, one more vertex than
\* centres along every dimension.
fnCellCorners(lon, lat) ==
    [lon_b |-> Coord("lon_b", [d \in 1..Ndim(lon) |-> lon.shape[d] + 1]),
     lat_b |-> Coord("lat_b", [d \in 1..Ndim(lat) |-> lat.shape[d] + 1])]

\* Lines 128-141: the source and target grid handed to the regridder.
SourceGrid(nc, tg, meth) ==
    IF meth = "conservative" /\ "lon_bnds" \notin nc.data_vars
    THEN LET b == fnCellCorners(nc.lon, nc.lat) IN
         [lon |-> nc.lon, lat |-> nc.lat, lon_b |-> b.lon_b, lat_b |-> b.lat_b]
    ELSE [lon |-> nc.lon, lat |-> nc.lat]
TargetGrid(nc, tg, meth) ==
    IF meth = "conservative" /\ "lon_bnds" \notin nc.data_vars
    THEN LET b == fnCellCorners(tg.lon, tg.lat) IN
         [lon |-> tg.lon, lat |-> tg.lat, lon_b |-> b.lon_b, lat_b |-> b.lat_b]
    ELSE tg
\* Lines 142-147.
OutDims(t_grid) ==
    IF Ndim(t_grid.lon) = 1 THEN <<Size(t_grid.lat), Size(t_grid.lon)>>
    ELSE <<t_grid.lon.shape[1], t_grid.lon.shape[2]>>
OutDimsShape(t_grid) ==
    IF Ndim(t_grid.lon) = 1 THEN [lon |-> <<"x">>, lat |-> <<"y">>]
    ELSE [lon |-> <<"y", "x">>, lat |-> <<"y", "x">>]
\* get_grids, lines 124-149.
get_grids(nc, tg, meth) ==
    LET t_grid == TargetGrid(nc, tg, meth) IN
    [s_grid |-> SourceGrid(nc, tg, meth), t_grid |-> t_grid,
     outdims |-> OutDims(t_grid), outdims_shape |-> OutDimsShape(t_grid)]

\* remap.add_matrix_NaNs: a row of the weight matrix with no weight at all
\* becomes a row that stores NaN in its first column.
add_matrix_NaNs(W) ==
    LET m == W.shape[2] IN
    Array(W.shape,
          [n \in 1..Len(W.flat) |->
              IF (n-1) % m = 0
                 /\ \A k \in 0..(m-1) : At2(W, (n-1) \div m, k) = 0
              THEN NaN ELSE W.flat[n]])

\* Lines 212-213: A = remap.add_matrix_NaNs(xe.Regridder(...)).A
RegridderMatrix_Raw(W) == W
RegridderMatrix(W) == add_matrix_NaNs(W)

\* The first time index (from 0) of block b of the time chunks.
BlockStart(chunks, b) == SumSeq(SubSeq(chunks, 1, b - 1))
\* Block b of a (time, y, x) array chunked along time only.
TimeBlock(arr, chunks, b) ==
    LET cells == arr.shape[2] * arr.shape[3]
        first == BlockStart(chunks, b) * cells
    IN  Array(<<chunks[b], arr.shape[2], arr.shape[3]>>,
              SubSeq(arr.flat, first + 1, first + chunks[b] * cells))

Pending == Array(<<>>, <<>>)

\* Lines 207-216: the grids, the corrected matrix, and one _rgr_calc task per
\* block of the data (da.map_blocks).
regridding_start ==
    /\ gpc = "call"
    /\ grids' = get_grids(indata, target_grid, method)
    /\ A' = RegridderMatrix(xe_weights)
    /\ blockout' = [b \in 1..Len(indata.chunks) |-> Pending]
    /\ completed' = <<>>
    /\ gpc' = "blocks"
    /\ UNCHANGED <<indata, target_grid, method, xe_weights, dset>>

\* One task of the map_blocks graph: a worker runs _rgr_calc on block b. The
\* tasks run in any order.
rgr_block(b) ==
    /\ gpc = "blocks"
    /\ blockout[b] = Pending
    /\ blockout' = [blockout EXCEPT ![b] =
            _rgr_calc(TimeBlock(indata.arr, indata.chunks, b), A, grids.outdims)]
    /\ completed' = Append(completed, b)
    /\ UNCHANGED <<indata, target_grid, method, xe_weights, grids, A, dset, gpc>>

\* The order in which the blocks of the dask array are put together: by block
\* position, whatever the order of completion.
BlockOrder_Completion(n, done) == done
BlockOrder(n, done) == [i \in 1..n |-> i]

\* The blocks joined along the time axis.
RECURSIVE ConcatTime(_, _)
ConcatTime(blocks, order) ==
    IF order = <<>> THEN Array(<<0>>, <<>>)
    ELSE LET b == blocks[Head(order)]
             rest == ConcatTime(blocks, Tail(order))
         IN  Array(<<b.shape[1] + rest.shape[1]>> \o Tail(b.shape),
                   b.flat \o rest.flat)

\* Lines 217-230: the regridded array as a dataset with the target grid's
\* coordinates and the input's time axis and attributes.
regridding_return ==
    /\ gpc = "blocks"
    /\ \A b \in DOMAIN blockout : blockout[b] # Pending
    /\ dset' = [arr |-> ConcatTime(blockout,
                                   BlockOrder(Len(blockout), completed)),
                dims |-> <<"time", "y", "x">>,
                lon |-> [dims |-> grids.outdims_shape.lon,
                         values |-> target_grid.lon],
                lat |-> [dims |-> grids.outdims_shape.lat,
                         values |-> target_grid.lat],
                time |-> indata.time,
                attrs |-> indata.attrs]
    /\ gpc' = "returned"
    /\ UNCHANGED <<indata, target_grid, method, xe_weights, grids, A, blockout,
                   completed>>

\* Grid shapes (ny, nx) of at most MaxCells cells.
GridShapes ==
    {s \in (1..MaxCells) \X (1..MaxCells) : s[1] * s[2] <= MaxCells}

\* A grid as the loaders build it: 2D lon/lat of shape (ny, nx), or for a
\* rectilinear grid 1D lon of nx and 1D lat of ny elements.
Grid(ndim, s) ==
    IF ndim = 1 THEN [lon |-> Coord("lon", <<s[2]>>), lat |-> Coord("lat", <<s[1]>>)]
    ELSE [lon |-> Coord("lon", s), lat |-> Coord("lat", s)]

\* The ways to cut T time steps into consecutive blocks.
TimeChunkings(T) ==
    {c \in UNION {[1..n -> 1..T] : n \in 1..T} : SumSeq(c) = T}

\* The input data: every (time, cell) holds a value of its own, and the last
\* cell of the last time step is missing (NaN).
InputArray(T, s) ==
    LET size == T * s[1] * s[2] IN
    Array(<<T, s[1], s[2]>>, [n \in 1..size |-> IF n = size THEN NaN ELSE n])

\* The weights xe.Regridder yields for nout target and nin source cells:
\* target cell r overlaps `stencil` source cells from cell r on (cyclically),
\* except target cell `zrow`, which overlaps none (zrow = 0: every target
\* cell overlaps some source cell).
Weights(nout, nin, stencil, zrow) ==
    Array(<<nout, nin>>,
          [n \in 1..(nout * nin) |->
              LET r == (n-1) \div nin
                  k == (n-1) % nin
              IN  IF r + 1 = zrow THEN 0
                  ELSE IF (k - r) % nin < stencil THEN 1 + ((r + k) % 2)
                  ELSE 0])

RegridInit ==
    /\ \E T \in 1..MaxT, s \in GridShapes, bnds \in BOOLEAN :
         \E ch \in TimeChunkings(T) :
            indata = [arr |-> InputArray(T, s),
                      chunks |-> ch,
                      time |-> [i \in 1..T |-> 10 * i],
                      lon |-> Coord("lon", s),
                      lat |-> Coord("lat", s),
                      data_vars |-> IF bnds THEN {"var", "lon_bnds", "lat_bnds"}
                                    ELSE {"var"},
                      attrs |-> <<"attrs">>]
    /\ \E ndim \in 1..2, s \in GridShapes : target_grid = Grid(ndim, s)
    /\ method \in Methods
    /\ \E stencil \in Stencils,
          zrow \in 0..Prod(OutDims(target_grid)) :
         xe_weights = Weights(Prod(OutDims(target_grid)), Size(indata.lon),
                              stencil, zrow)
    /\ grids = NoEntry
    /\ A = NoEntry
    /\ blockout = NoEntry
    /\ completed = NoEntry
    /\ dset = NoEntry
    /\ gpc = "call"

InitRegrid ==
    RegridInit /\ RemapIdle /\ ChunkIdle /\ DomainIdle /\ ObsIdle /\ StatsIdle
NextRegrid ==
    \/ regridding_start
          /\ UNCHANGED <<remapvars, chunkvars, domainvars, obsvars, statsvars>>
    \/ (\E b \in DOMAIN blockout : rgr_block(b))
          /\ UNCHANGED <<remapvars, chunkvars, domainvars, obsvars, statsvars>>
    \/ regridding_return
          /\ UNCHANGED <<remapvars, chunkvars, domainvars, obsvars, statsvars>>
SpecRegrid == InitRegrid /\ [][NextRegrid]_vars

(***************************************************************************)
(*                       get_grid_coords and _domain                       *)
(***************************************************************************)

\* Bound: the rows, and the columns, the margin leaves inside the grid.
MaxSide == 5

\* The margins _domain is called with: gp_bfr of line 115 is 15; the smaller
\* ones give the same slices on smaller arrays.
Margins == {1, 2, 15}

\* a[k] for an axis of n elements: a negative index counts from the end.
PyIndex(n, k) == IF k < 0 THEN k + n ELSE k
\* The indices (from 0) a[start:stop] selects on an axis of n elements.
PySliceBound(n, k) == IF k < 0 THEN Max(k + n, 0) ELSE Min(k, n)
PySlice(n, start, stop) ==
    LET lo == PySliceBound(n, start)
        hi == PySliceBound(n, stop)
    IN  [k \in 1..Max(hi - lo, 0) |-> lo + k - 1]

\* s[::-1]
Reverse(s) == [k \in 1..Len(s) |-> s[Len(s) + 1 - k]]
\* s[1:]
Rest_KeepFirst(s) == s
Rest(s) == IF s = <<>> THEN <<>> ELSE Tail(s)

\* a[i, cols] and a[rows, j] for an integer index and a slice.
RowAt(a, i, cols) == [k \in 1..Len(cols) |-> At2(a, i, cols[k])]
ColAt(a, rows, j) == [k \in 1..Len(rows) |-> At2(a, rows[k], j)]

\* Lines 104-105 (106-107): np.r_[a[x, x:-x], a[x:-x, -1-x][1:],
\*                                a[-1-x, x:-x][::-1][1:], a[x:-x, x][::-1][1:]]
DomainRing(a, x) ==
    LET ny == a.shape[1]
        nx == a.shape[2]
        rows == PySlice(ny, x, -x)
        cols == PySlice(nx, x, -x)
    IN  RowAt(a, PyIndex(ny, x), cols)
        \o Rest(ColAt(a, rows, PyIndex(nx, -1 - x)))
        \o Rest(Reverse(RowAt(a, PyIndex(ny, -1 - x), cols)))
        \o Rest(Reverse(ColAt(a, rows, PyIndex(nx, x))))

\* _domain, lines 103-108: list(zip(lons_p, lats_p)).
_domain(lats, lons, x) ==
    LET lons_p == DomainRing(lons, x)
        lats_p == DomainRing(lats, x)
    IN  [k \in 1..Min(Len(lons_p), Len(lats_p)) |-> <<lons_p[k], lats_p[k]>>]

\* Lines 115-118: the corner points [lat, lon, lat, lon].
Corners(lat, lon, g) ==
    LET ny == lat.shape[1]
        nx == lat.shape[2]
    IN  <<At2(lat, PyIndex(ny, g), PyIndex(nx, g)),
          At2(lon, PyIndex(ny, g), PyIndex(nx, g)),
          At2(lat, PyIndex(ny, -g), PyIndex(nx, -g)),
          At2(lon, PyIndex(ny, -g), PyIndex(nx, -g))>>

\* get_grid_coords, lines 91-121.
get_grid_coords ==
    /\ dpc = "call"
    /\ grid_coords' =
          [lat_0 |-> <<"latitude_of_projection_origin">>,
           lon_0 |-> <<"longitude_of_central_meridian">>,
           crnrs |-> Corners(nc_lat, nc_lon, gp_bfr),
           domain |-> _domain(nc_lat, nc_lon, gp_bfr)]
    /\ dpc' = "returned"
    /\ UNCHANGED <<nc_lat, nc_lon, gp_bfr>>

\* The coordinates of a model grid: cell (i, j) has a longitude that tells its
\* column and a latitude that tells its row.
CellLon(i, j) == 100 + j
CellLat(i, j) == 500 + i
LonArray(ny, nx) ==
    Array(<<ny, nx>>,
          [n \in 1..(ny * nx) |-> CellLon((n-1) \div nx, (n-1) % nx)])
LatArray(ny, nx) ==
    Array(<<ny, nx>>,
          [n \in 1..(ny * nx) |-> CellLat((n-1) \div nx, (n-1) % nx)])

\* A model dataset of Ny x Nx cells of which the margin leaves 1..MaxSide rows
\* and columns.
DomainInit ==
    /\ gp_bfr \in Margins
    /\ \E h \in 1..MaxSide, w \in 1..MaxSide :
          /\ nc_lat = LatArray(2 * gp_bfr + h, 2 * gp_bfr + w)
          /\ nc_lon = LonArray(2 * gp_bfr + h, 2 * gp_bfr + w)
    /\ grid_coords = NoEntry
    /\ dpc = "call"

InitDomain ==
    DomainInit /\ RemapIdle /\ ChunkIdle /\ RegridIdle /\ ObsIdle /\ StatsIdle
NextDomain ==
    get_grid_coords
    /\ UNCHANGED <<remapvars, chunkvars, regridvars, obsvars, statsvars>>
SpecDomain == InitDomain /\ [][NextDomain]_vars

(***************************************************************************)
(*                              get_obs_data                               *)
(***************************************************************************)

\* Bound: the cells along an axis of an observation grid.
MaxObsSide == 3

\* np.flipud: the order along the first axis reversed (a 1D array reversed,
\* the rows of a 2D array reversed).
FlipUD(a) ==
    IF Ndim(a) = 1 THEN Array(a.shape, Reverse(a.flat))
    ELSE LET ny == a.shape[1]
             nx == a.shape[2]
         IN  Array(a.shape,
                   [n \in 1..(ny * nx) |->
                       At2(a, ny - 1 - ((n-1) \div nx), (n-1) % nx)])

\* np.diff(s)[0]; the sequence has two elements or more.
Diff0(s) == s[2] - s[1]
\* a[0, :] and a[:, 0] of a 2D array.
FirstRow(a) == RowAt(a, 0, [k \in 1..a.shape[2] |-> k - 1])
FirstCol(a) == ColAt(a, [k \in 1..a.shape[1] |-> k - 1], 0)

\* obs_data.reindex({d: obs_data[d][::-1]}) and
\* obs_data.reindex({d: np.flipud(obs_data[d])}): the dataset with the labels
\* of dimension d, and the data along it, in reversed order.
ReindexReversed(data, d) == [data EXCEPT ![d] = Reverse(data[d])]

\* Lines 510-512 and 517-519: the longitudes. np.diff(...)[0] of a single
\* element raises IndexError.
OrderLons(lo, data) ==
    IF Ndim(lo) = 1
    THEN IF lo.shape[1] < 2 THEN [raised |-> TRUE, lons |-> lo, data |-> data]
         ELSE IF Diff0(lo.flat) < 0
              THEN [raised |-> FALSE, lons |-> Array(lo.shape, Reverse(lo.flat)),
                    data |-> ReindexReversed(data, "x")]
              ELSE [raised |-> FALSE, lons |-> lo, data |-> data]
    ELSE IF lo.shape[2] < 2 THEN [raised |-> TRUE, lons |-> lo, data |-> data]
         ELSE IF Diff0(FirstRow(lo)) < 0
              THEN [raised |-> FALSE, lons |-> FlipUD(lo),
                    data |-> ReindexReversed(data, "x")]
              ELSE [raised |-> FALSE, lons |-> lo, data |-> data]

\* Lines 513-515 and 520-522: the latitudes. The branch is chosen by
\* lons.ndim (lines 509, 516).
OrderLats(lo, la, data) ==
    IF Ndim(lo) = 1
    THEN IF la.shape[1] < 2 THEN [raised |-> TRUE, lats |-> la, data |-> data]
         ELSE IF Diff0(la.flat) < 0
              THEN [raised |-> FALSE, lats |-> Array(la.shape, Reverse(la.flat)),
                    data |-> ReindexReversed(data, "y")]
              ELSE [raised |-> FALSE, lats |-> la, data |-> data]
    ELSE IF la.shape[1] < 2 THEN [raised |-> TRUE, lats |-> la, data |-> data]
         ELSE IF Diff0(FirstCol(la)) < 0
              THEN [raised |-> FALSE, lats |-> FlipUD(la),
                    data |-> ReindexReversed(data, "y")]
              ELSE [raised |-> FALSE, lats |-> la, data |-> data]

\* Lines 525-528.
ObsGridname(g) == IF g # None THEN <<"basename", g>> ELSE <<"grid_OBS">>

\* get_obs_data from line 497 on, the files opened, the years selected and
\* the data scaled (lines 472-531).
get_obs_data ==
    /\ opc = "call"
    /\ LET r1 == OrderLons(obs_lons, obs_data)
           r2 == OrderLats(obs_lons, obs_lats, r1.data)
       IN  IF r1.raised \/ r2.raised
           THEN opc' = "raised" /\ outdata' = outdata
           ELSE /\ outdata' = [data |-> r2.data,
                               grid |-> [lon |-> r1.lons, lat |-> r2.lats],
                               gridname |-> ObsGridname(obs_grid)]
                /\ opc' = "returned"
    /\ UNCHANGED <<obs_lons, obs_lats, obs_data, obs_grid>>

\* The coordinates of an observation file: monotonic along their axis,
\* ascending or descending. On a 2D grid the longitude also shifts by one
\* from row to row and the latitude from column to column.
ObsLon(ndim, ny, nx, asc) ==
    IF ndim = 1
    THEN Array(<<nx>>, [n \in 1..nx |-> 100 + 10 * (IF asc THEN n ELSE nx - n)])
    ELSE Array(<<ny, nx>>,
               [n \in 1..(ny * nx) |->
                   LET i == (n-1) \div nx
                       j == (n-1) % nx
                   IN  100 + 10 * (IF asc THEN j ELSE nx - 1 - j) + i])
ObsLat(ndim, ny, nx, asc) ==
    IF ndim = 1
    THEN Array(<<ny>>, [n \in 1..ny |-> 500 + 10 * (IF asc THEN n ELSE ny - n)])
    ELSE Array(<<ny, nx>>,
               [n \in 1..(ny * nx) |->
                   LET i == (n-1) \div nx
                       j == (n-1) % nx
                   IN  500 + 10 * (IF asc THEN i ELSE ny - 1 - i) + j])

ObsInit ==
    /\ \E ndim \in 1..2, ny \in 1..MaxObsSide, nx \in 1..MaxObsSide,
          lon_asc \in BOOLEAN, lat_asc \in BOOLEAN :
          /\ obs_lons = ObsLon(ndim, ny, nx, lon_asc)
          /\ obs_lats = ObsLat(ndim, ny, nx, lat_asc)
          /\ obs_data = [x |-> [k \in 1..nx |-> k - 1],
                         y |-> [k \in 1..ny |-> k - 1]]
    /\ obs_grid \in {None, "grids/EOBS20"}
    /\ outdata = NoEntry
    /\ opc = "call"

InitObs ==
    ObsInit /\ RemapIdle /\ ChunkIdle /\ RegridIdle /\ DomainIdle /\ StatsIdle
NextObs ==
    get_obs_data
    /\ UNCHANGED <<remapvars, chunkvars, regridvars, domainvars, statsvars>>
SpecObs == InitObs /\ [][NextObs]_vars

(***************************************************************************)
(*                      calc_stats and get_masked_data                     *)
(***************************************************************************)

\* Bounds: the time steps of a dataset and the rows of its grid; the grid has
\* up to one column more than MaxStatSide.
MaxSteps == 2
MaxStatSide == 2

RECURSIVE Factorial(_)
Factorial(n) == IF n <= 1 THEN 1 ELSE n * Factorial(n - 1)
\* The data values are whole multiples of Unit, so that the mean of any
\* MaxSteps or fewer of them, and of means of pairs of them, is a whole number.
Unit == 2 * Factorial(MaxSteps)

\* The elements of s that are not NaN.
RECURSIVE DropNaN(_)
DropNaN(s) ==
    IF s = <<>> THEN <<>>
    ELSE IF Head(s) = NaN THEN DropNaN(Tail(s))
    ELSE <<Head(s)>> \o DropNaN(Tail(s))
\* The mean that skips NaN (skipna): NaN when nothing is left.
NanMean(s) ==
    LET v == DropNaN(s) IN
    IF v = <<>> THEN NaN ELSE SumSeq(v) \div Len(v)

\* The ascending sequence of a set of numbers.
RECURSIVE SortedSeq(_)
SortedSeq(S) ==
    IF S = {} THEN <<>>
    ELSE LET lo == CHOOSE a \in S : \A b \in S : a <= b
         IN  <<lo>> \o SortedSeq(S \ {lo})

\* Row-major layout: the stride of dimension d of an array of the given
\* shape, and the index along d of the element at flat position p (from 0).
Stride(shape, d) == Prod(SubSeq(shape, d + 1, Len(shape)))
IndexAlong(shape, p, d) == (p \div Stride(shape, d)) % shape[d]

\* np.broadcast_to(mask, shape): the 2D mask at every index of the leading
\* dimensions; a view, no element is copied.
BroadcastTo(mask, shape) ==
    LET cells == mask.shape[1] * mask.shape[2] IN
    Array(shape, [n \in 1..Prod(shape) |-> mask.flat[((n - 1) % cells) + 1]])

\* Dataset.where(cond, drop=True), the labels kept along dimension d: those
\* at which cond is true somewhere.
Kept(cond, d) ==
    SortedSeq({IndexAlong(cond.shape, q - 1, d) :
                  q \in {n \in 1..Len(cond.flat) : cond.flat[n]}})
\* The flat position (from 0) in the full array of the element at flat
\* position m (from 0) of the array cut to the kept labels.
RECURSIVE OrigPos(_, _, _, _, _)
OrigPos(shape, newshape, kept, m, d) ==
    IF d > Len(shape) THEN 0
    ELSE kept[d][IndexAlong(newshape, m, d) + 1] * Stride(shape, d)
         + OrigPos(shape, newshape, kept, m, d + 1)

\* What where() leaves at an element: the value where cond is true, NaN
\* where it is false.
WhereValue_Zero(c, v) == IF c THEN v ELSE 0
WhereValue(c, v) == IF c THEN v ELSE NaN

\* array.where(cond, drop=True) for an array and a cond of the same shape.
Where(arr, cond) ==
    LET nd == Len(arr.shape)
        kept == [d \in 1..nd |-> Kept(cond, d)]
        newshape == [d \in 1..nd |-> Len(kept[d])]
    IN  Array(newshape,
              [n \in 1..Prod(newshape) |->
                  LET o == OrigPos(arr.shape, newshape, kept, n - 1, 1) + 1
                  IN  WhereValue(cond.flat[o], arr.flat[o])])

\* A 2D coordinate cut to the kept rows and columns (coordinates are not
\* masked).
Isel2(a, ky, kx) ==
    Array(<<Len(ky), Len(kx)>>,
          [n \in 1..(Len(ky) * Len(kx)) |->
              At2(a, ky[((n - 1) \div Len(kx)) + 1], kx[((n - 1) % Len(kx)) + 1])])

\* get_masked_data, lines 347-353.
get_masked_data(data, var, mask) ==
    LET nd == Len(data.arr.shape)
        mask_in == BroadcastTo(mask, data.arr.shape)
        ky == Kept(mask_in, nd - 1)
        kx == Kept(mask_in, nd)
    IN  [dims |-> data.dims,
         arr |-> Where(data.arr, mask_in),
         lon |-> Isel2(data.lon, ky, kx),
         lat |-> Isel2(data.lat, ky, kx)]

\* The region definitions and their test: whether a point is in region r.
Regions == {"West", "North", "Diagonal", "Outside"}
InRegion(r, lon, lat) ==
    CASE r = "West" -> lon <= CellLon(0, 0)
      [] r = "North" -> lat >= CellLat(1, 0)
      [] r = "Diagonal" -> lon - CellLon(0, 0) = lat - CellLat(0, 0)
      [] r = "Outside" -> lon >= CellLon(0, 0) + 100

\* gfunc.reg_mask(lon, lat, r, cut_data=False): a mask of the shape of the
\* grid, true at the cells in the region.
reg_mask(lon, lat, r) ==
    Array(lon.shape,
          [n \in 1..Len(lon.flat) |-> InRegion(r, lon.flat[n], lat.flat[n])])

\* The values of cell c (a flat position from 0 among `cells` cells) at the
\* time steps in ts (from 0) of a (time, y, x) array.
CellSeries(arr, cells, c, ts) ==
    [k \in 1..Len(ts) |-> arr.flat[ts[k] * cells + c + 1]]

\* st.calc_statistics(data, v, stat, stats_config) for the mean: the mean
\* over time of every cell, on the grid of the data.
calc_statistics(data, v) ==
    LET T == data.arr.shape[1]
        ny == data.arr.shape[2]
        nx == data.arr.shape[3]
        ts == [k \in 1..T |-> k - 1]
    IN  [dims |-> <<"y", "x">>,
         arr |-> Array(<<ny, nx>>,
                       [n \in 1..(ny * nx) |->
                           NanMean(CellSeries(data.arr, ny * nx, n - 1, ts))]),
         lon |-> data.lon,
         lat |-> data.lat]

\* Lines 265-267: a dataset of more than two variables is cut to the one asked.
SelectVar(nc, v) ==
    IF Cardinality(nc.data_vars) > 2
    THEN [nc EXCEPT !.data_vars = {v}]
    ELSE nc

\* indata.resample(time=freq).mean('time').dropna('time', 'all'): the means of
\* the groups of `freq` consecutive time steps, the groups that are NaN
\* everywhere dropped; every group is a block of the result.
Resample(nc, freq) ==
    LET T == nc.arr.shape[1]
        ny == nc.arr.shape[2]
        nx == nc.arr.shape[3]
        cells == ny * nx
        ngroups == (T + freq - 1) \div freq
        steps(g) == [k \in 1..Min(freq, T - g * freq) |-> g * freq + k - 1]
        gmean(g, c) == NanMean(CellSeries(nc.arr, cells, c, steps(g)))
        keep == SortedSeq({g \in 0..(ngroups - 1) :
                              \E c \in 0..(cells - 1) : gmean(g, c) # NaN})
        nt == Len(keep)
    IN  [nc EXCEPT
            !.arr = Array(<<nt, ny, nx>>,
                          [n \in 1..(nt * cells) |->
                              gmean(keep[((n - 1) \div cells) + 1],
                                    (n - 1) % cells)]),
            !.time = [k \in 1..nt |-> nc.time[keep[k] * freq + 1]],
            !.sizes = [nc.sizes EXCEPT !["time"] = nt],
            !.chunks = [nc.chunks EXCEPT !["time"] = [k \in 1..nt |-> 1]]]

\* Lines 269-278: resampled when a resolution is configured and it is not the
\* time step of the data (time.values[1] - time.values[0]).
MaybeResample(nc, tresample) ==
    IF tresample # None /\ nc.time[2] - nc.time[1] # tresample[1]
    THEN Resample(nc, tresample[1])
    ELSE nc

\* Lines 284-300: the statistics of the regions.
\* `out` is what the get_masked_data calls returned.
PoolRegions_Unmasked(data, v, masks) ==
    LET md == [r \in DOMAIN masks |-> get_masked_data(data, v, masks[r])]
    IN  [out |-> md,
         st_mdata |-> [r \in DOMAIN masks |-> calc_statistics(data, v)]]
PoolRegions(data, v, masks) ==
    LET md == [r \in DOMAIN masks |-> get_masked_data(data, v, masks[r])]
    IN  [out |-> md,
         st_mdata |-> [r \in DOMAIN masks |-> calc_statistics(md[r], v)]]
FastRegions(domain, v, masks) ==
    LET md == [r \in DOMAIN masks |-> get_masked_data(domain, v, masks[r])]
    IN  [out |-> md, st_mdata |-> md]

\* `if regions:`, line 284.
HasRegions(regs) == regs # None /\ regs # <<>>

\* Lines 263-300: the statistics of a participant with data.
ParticipantStats(entry, v, conf, pl, cdim, regs) ==
    LET nc == MaybeResample(SelectVar(entry.data, v), conf.resample)
        data == IF cdim = "space" THEN ChunkSpace(nc) ELSE ChunkTime(nc)
        domain == calc_statistics(data, v)
        masks == [r \in Range(regs) |-> reg_mask(data.lon, data.lat, r)]
        rg == IF pl THEN PoolRegions(data, v, masks)
              ELSE FastRegions(domain, v, masks)
    IN  IF HasRegions(regs)
        THEN [st |-> [domain |-> domain, regions |-> rg.st_mdata],
              mdata |-> [data |-> data, masks |-> masks, out |-> rg.out]]
        ELSE [st |-> [domain |-> domain],
              mdata |-> [data |-> data, masks |-> <<>>, out |-> <<>>]]

\* The None that stands in ddict for a participant without data (line 259).
NoData == <<>>

\* Lines 259-261: a participant without data gets no entry.
SkipParticipant_EmptyEntry(st, m) == m :> <<>> @@ st
SkipParticipant(st, m) == st

\* One pass of the loop `for m in ddict[f][v]`, lines 256-300.
calc_stats_participant ==
    /\ spc = "loop"
    /\ todo # <<>>
    /\ LET m == Head(todo) IN
       IF ddict[m] = NoData
       THEN /\ st_data' = SkipParticipant(st_data, m)
            /\ mdata' = mdata
       ELSE LET r == ParticipantStats(ddict[m], "var", stats_config, pool,
                                      schunk_dim, regions)
            IN  /\ st_data' = m :> r.st @@ st_data
                /\ mdata' = r.mdata
    /\ todo' = Tail(todo)
    /\ UNCHANGED <<ddict, stats_config, pool, schunk_dim, regions, spc>>

\* Line 302, the loop over the participants of the one variable done.
calc_stats_return ==
    /\ spc = "loop"
    /\ todo = <<>>
    /\ spc' = "returned"
    /\ UNCHANGED <<ddict, stats_config, pool, schunk_dim, regions, todo, mdata,
                   st_data>>

\* The participants of the variable, in the order of the dictionary.
StatNames == <<"obs1", "mod1">>
\* The fields: one value everywhere, or a value of its own at every time
\* step and cell with the last cell of the last time step missing.
FieldKinds == {"uniform", "ramp"}
UniformValue == 3 * Unit
StatField(kind, T, ny, nx) ==
    LET size == T * ny * nx IN
    Array(<<T, ny, nx>>,
          [n \in 1..size |->
              IF kind = "uniform" THEN UniformValue
              ELSE IF n = size THEN NaN ELSE n * Unit])
\* A dataset as remap_func leaves it: (time, y, x), one time block per step.
StatDataset(kind, T, ny, nx, dvars) ==
    [dims |-> <<"time", "y", "x">>,
     sizes |-> [d \in {"time", "y", "x"} |->
                   IF d = "time" THEN T ELSE IF d = "y" THEN ny ELSE nx],
     chunks |-> [d \in {"time", "y", "x"} |->
                    IF d = "time" THEN [k \in 1..T |-> 1]
                    ELSE IF d = "y" THEN <<ny>> ELSE <<nx>>],
     arr |-> StatField(kind, T, ny, nx),
     lon |-> LonArray(ny, nx),
     lat |-> LatArray(ny, nx),
     time |-> [k \in 1..T |-> k - 1],
     data_vars |-> dvars]

\* The variables of a participant's files: the files of the model also
\* hold the cell bounds.
DataVars(m) ==
    IF m = "mod1" THEN {"var", "lon_bnds", "lat_bnds"} ELSE {"var"}

\* The configured region lists (None: no regions) and resample resolutions
\* (None, or the number of time steps of the data a resampled step spans).
RegionLists ==
    {None, <<"Diagonal">>, <<"West", "Outside">>, <<"North", "Diagonal">>}
ResampleResolutions == {None, <<1, "mean">>, <<2, "mean">>}

\* calc_stats called (lines 745-753) for one variable. line 271 reads the
\* second time value, so a resampled series has two time steps or more.
StatsInit ==
    /\ \E kind \in FieldKinds, T \in 1..MaxSteps, ny \in 2..MaxStatSide,
          nx \in 2..(MaxStatSide + 1),
          avail \in SUBSET Range(StatNames) :
          /\ ddict = [m \in Range(StatNames) |->
                        IF m \in avail
                        THEN [data |-> StatDataset(kind, T, ny, nx,
                                                   DataVars(m))]
                        ELSE NoData]
          /\ stats_config \in [resample : ResampleResolutions]
          /\ stats_config.resample # None => T >= 2
    /\ pool \in BOOLEAN
    /\ schunk_dim \in {"space", "time"}
    /\ regions \in RegionLists
    /\ todo = StatNames
    /\ mdata = NoEntry
    /\ st_data = <<>>
    /\ spc = "loop"

InitStats ==
    StatsInit /\ RemapIdle /\ ChunkIdle /\ RegridIdle /\ DomainIdle /\ ObsIdle
NextStats ==
    \/ calc_stats_participant
          /\ UNCHANGED <<remapvars, chunkvars, regridvars, domainvars, obsvars>>
    \/ calc_stats_return
          /\ UNCHANGED <<remapvars, chunkvars, regridvars, domainvars, obsvars>>
SpecStats == InitStats /\ [][NextStats]_vars

(***************************************************************************)
(*                        Properties of remap_func                         *)
(***************************************************************************)

Configured == Range(mnames) \cup (Range(onames) \ {None})

\* d is the regridding of participant p's loaded data onto the grid tg.
IsRegriddedOnto(d, p, tg) ==
    /\ d.vals = <<"rgr", <<"native", p>>, vconf.rgr_method, tg.lon, tg.lat>>
    /\ d.lon = tg.lon
    /\ d.lat = tg.lat
    /\ d.time = <<"time", p>>

\* C1: when the regrid target is an observation, every model's data is its
\* regridding onto that observation's grid, so is every other observation's,
\* the target observation's data is the loaded one, and gdict records the
\* target observation's gridname.
C1_ObsTarget ==
    (rpc = "returned" /\ vconf.regrid # None /\ vconf.regrid \in Range(onames))
    => LET o == vconf.regrid
           tg == LoadedGrid(o)
       IN  /\ \A m \in Range(mnames) : IsRegriddedOnto(dd[m].data, m, tg)
           /\ \A x \in Range(onames) \ {o} : IsRegriddedOnto(dd[x].data, x, tg)
           /\ dd[o].data = LoadedData(o)
           /\ gdict.gridname = <<"grid", o>>

C1_Witness ==
    /\ rpc = "returned"
    /\ vconf.regrid \in Range(onames)
    /\ vconf.regrid # None
    /\ Len(onames) > 1
    /\ Len(mnames) > 1
    /\ dd[mnames[2]].data.lon = <<"lon", vconf.regrid>>

\* C2: when the regrid target is a model, every other model's data is its
\* regridding onto that model's grid, so is every observation's, the target
\* model's data is the loaded one, and gdict records the target model's
\* gridname.
C2_ModelTarget ==
    (rpc = "returned" /\ vconf.regrid \in Range(mnames)
        /\ vconf.regrid \notin Range(onames))
    => LET t == vconf.regrid
           tg == LoadedGrid(t)
       IN  /\ \A m \in Range(mnames) \ {t} : IsRegriddedOnto(dd[m].data, m, tg)
           /\ \A x \in Range(onames) \ {None} :
                 IsRegriddedOnto(dd[x].data, x, tg)
           /\ dd[t].data = LoadedData(t)
           /\ gdict.gridname = <<"grid", t>>

C2_Witness ==
    /\ rpc = "returned"
    /\ vconf.regrid \in Range(mnames)
    /\ Len(mnames) > 1
    /\ Len(onames) > 1
    /\ dd[onames[2]].data.lon = <<"lon", vconf.regrid>>

\* C3: when the regrid target is unset nothing is regridded: every
\* participant's data is the loaded one, gdict holds every model's and every
\* observation's own lon/lat under its name, and the grid label is
\* 'native_grid'.
C3_NoTarget ==
    (rpc = "returned" /\ vconf.regrid = None)
    => /\ \A p \in Configured :
            /\ dd[p] = Loaded(p)
            /\ gdict.lon[p] = <<"lon", p>>
            /\ gdict.lat[p] = <<"lat", p>>
       /\ \A p \in Names \ Configured :
            gdict.lon[p] = NoEntry /\ gdict.lat[p] = NoEntry
       /\ gdict.gridname = <<"native_grid">>

C3_Witness ==
    /\ rpc = "returned"
    /\ vconf.regrid = None
    /\ Len(mnames) > 1
    /\ Len(onames) > 1
    /\ gdict.lon[onames[2]] = <<"lon", onames[2]>>

\* The regrid target is set but names neither a model nor an observation.
UnknownTarget ==
    /\ vconf.regrid # None
    /\ vconf.regrid \notin Range(mnames)
    /\ vconf.regrid \notin Range(onames)

\* C16: when the regrid target is set but is neither a configured model nor a
\* configured observation, remap_func never returns normally; it ends by
\* raising, and then every participant's data is still the loaded one (nothing
\* was regridded) and gdict holds no gridname and no grid.
C16_UnknownTargetRaises ==
    UnknownTarget =>
        /\ rpc \in {"call", "raised"}
        /\ rpc = "raised" =>
              /\ \A p \in Configured : dd[p] = Loaded(p)
              /\ gdict = EmptyGdict
              /\ gdict.gridname = NoEntry

C16_Witness ==
    /\ rpc = "raised"
    /\ UnknownTarget
    /\ Len(mnames) > 1
    /\ Len(onames) > 1
    /\ dd[mnames[1]].data.vals = <<"native", mnames[1]>>

(***************************************************************************)
(*                       Properties of manage_chunks                       *)
(***************************************************************************)

CeilDiv(a, b) == (a + b - 1) \div b

\* The number of blocks of the returned data over time and space.
NTimeBlocks(data) == Len(data.chunks["time"])
NSpaceBlocks(data) ==
    Len(data.chunks[data.dims[2]]) * Len(data.chunks[data.dims[3]])

\* c is max(nx, ny) / sqrt(nx*ny/500) rounded to the nearest integer:
\* (2c-1)^2 <= 4*500*M/m <= (2c+1)^2 with M, m the larger and smaller size.
IsSpaceEdge(c, nx, ny) ==
    LET M == Max(nx, ny)
        m == Min(nx, ny)
    IN  /\ (2*c - 1) * (2*c - 1) * m <= 4 * 500 * M
        /\ 4 * 500 * M <= (2*c + 1) * (2*c + 1) * m

\* C4: in 'space' mode both spatial dimensions are cut into blocks of the
\* edge length c = round(max(nx, ny) / sqrt(nx*ny/500)), time is one block,
\* and the number of blocks ceil(nx/c) * ceil(ny/c) is at most 500.
C4_SpaceAtMost500 ==
    (cpc = "returned" /\ chunk_dim = "space")
    => LET nx == cdata.sizes[cdata.dims[3]]
           ny == cdata.sizes[cdata.dims[2]]
       IN  /\ \E c \in 1..(ISqrt((500 * Max(nx, ny)) \div Min(nx, ny)) + 1) :
                /\ IsSpaceEdge(c, nx, ny)
                /\ cout.chunks[cdata.dims[3]] = Blocks(nx, c)
                /\ cout.chunks[cdata.dims[2]] = Blocks(ny, c)
                /\ NSpaceBlocks(cout) = CeilDiv(nx, c) * CeilDiv(ny, c)
           /\ cout.chunks["time"] = <<cdata.sizes["time"]>>
           /\ NSpaceBlocks(cout) <= 500

C4_Witness ==
    /\ cpc = "returned"
    /\ chunk_dim = "space"
    /\ cdata.sizes[cdata.dims[2]] = 1000
    /\ cdata.sizes[cdata.dims[3]] = 1000
    /\ cout.chunks[cdata.dims[3]] = Blocks(1000, 22)
    /\ NSpaceBlocks(cout) = 2116

\* C5: in 'time' mode, data with more than 500 time blocks is re-chunked into
\* blocks of round(n_time/500) elements, and then has at most 500 time blocks.
C5_TimeAtMost500 ==
    (cpc = "returned" /\ chunk_dim = "time" /\ NTimeBlocks(cdata) > 500)
    => /\ cout.chunks["time"] =
            Blocks(cdata.sizes["time"], RoundDiv(cdata.sizes["time"], 500))
       /\ NTimeBlocks(cout) <= 500

C5_Witness ==
    /\ cpc = "returned"
    /\ chunk_dim = "time"
    /\ cdata.sizes["time"] = 749
    /\ NTimeBlocks(cdata) = 749
    /\ NTimeBlocks(cout) = 749

\* C6: in 'time' mode, data with 500 or fewer time blocks is returned as it
\* came: the same blocks, values and dimensions.
C6_TimeUntouched ==
    (cpc = "returned" /\ chunk_dim = "time" /\ NTimeBlocks(cdata) <= 500)
    => cout = cdata

C6_Witness ==
    /\ cpc = "returned"
    /\ chunk_dim = "time"
    /\ cdata.sizes["time"] = 10000
    /\ cdata.chunks["time"] = <<10000>>
    /\ cout.chunks["time"] = <<10000>>

(***************************************************************************)
(*                        Properties of regridding                         *)
(***************************************************************************)

HasBounds(g) == {"lon_b", "lat_b"} \subseteq DOMAIN g

\* C7: whenever the method is 'conservative', the source grid and the target
\* grid get_grids returns both carry lon_b and lat_b, whether or not the
\* source dataset holds a 'lon_bnds' variable.
C7_ConservativeHasBounds ==
    (gpc \in {"blocks", "returned"} /\ method = "conservative")
    => HasBounds(grids.s_grid) /\ HasBounds(grids.t_grid)

C7_Witness ==
    /\ gpc = "blocks"
    /\ method = "conservative"
    /\ "lon_bnds" \in indata.data_vars
    /\ DOMAIN grids.s_grid = {"lon", "lat"}
    /\ DOMAIN grids.t_grid = {"lon", "lat"}

NIn == xe_weights.shape[2]
NOut == xe_weights.shape[1]
\* Target cell r (from 0) has no weight on any source cell.
ZeroWeight(r) == \A k \in 1..NIn : xe_weights.flat[r * NIn + k] = 0
ZeroWeightCells == {r \in 0..(NOut - 1) : ZeroWeight(r)}

\* C8: a target cell whose total source weight is zero is NaN, not zero, at
\* every time step of every regridded block and of the returned dataset.
C8_ZeroWeightIsNaN ==
    /\ gpc = "blocks" =>
         \A r \in ZeroWeightCells :
            \A b \in DOMAIN blockout : blockout[b] # Pending =>
               \A t \in 0..(indata.chunks[b] - 1) :
                  blockout[b].flat[t * NOut + r + 1] = NaN
    /\ gpc = "returned" =>
         \A r \in ZeroWeightCells :
            \A t \in 0..(Len(indata.time) - 1) :
               dset.arr.flat[t * NOut + r + 1] = NaN

C8_Witness ==
    /\ gpc = "returned"
    /\ NOut > 1
    /\ Len(indata.time) > 1
    /\ ZeroWeight(1)
    /\ ~ZeroWeight(0)
    /\ dset.arr.flat[2] = NaN
    /\ dset.arr.flat[NOut + 2] = NaN
    /\ dset.arr.flat[1] # NaN

\* Element (t, i, j) of a 3D array, indices from 0.
At3(a, t, i, j) == a.flat[(t * a.shape[2] + i) * a.shape[3] + j + 1]

\* The sum over the source cells k .. 0 of A[r, k] times cell k of time step
\* t of x, the cells counted row by row; a cell A stores no weight for adds
\* nothing.
RECURSIVE WeightedSum(_, _, _, _)
WeightedSum(x, t, r, k) ==
    IF k < 0 THEN 0
    ELSE LET w == A.flat[r * A.shape[2] + k + 1] IN
         IF w = 0 THEN WeightedSum(x, t, r, k - 1)
         ELSE Add(Mul(w, At3(x, t, k \div x.shape[3], k % x.shape[3])),
                  WeightedSum(x, t, r, k - 1))

\* C9: for an input block of shape (T, Ny_in, Nx_in), _rgr_calc returns an
\* array of shape (T, Ny_out, Nx_out) whose value at (t, i, j) is the sum over
\* the source cells k of A[i*Nx_out + j, k] times the input at (t, k).
C9_RgrCalc ==
    gpc \in {"blocks", "returned"} =>
      \A b \in DOMAIN blockout : blockout[b] # Pending =>
         LET x == TimeBlock(indata.arr, indata.chunks, b)
             out == blockout[b]
             Ny_out == grids.outdims[1]
             Nx_out == grids.outdims[2]
             last == indata.arr.shape[2] * indata.arr.shape[3] - 1
         IN  /\ out.shape = <<indata.chunks[b], Ny_out, Nx_out>>
             /\ Len(out.flat) = indata.chunks[b] * Ny_out * Nx_out
             /\ \A t \in 0..(indata.chunks[b] - 1), i \in 0..(Ny_out - 1),
                   j \in 0..(Nx_out - 1) :
                   At3(out, t, i, j) = WeightedSum(x, t, i * Nx_out + j, last)

C9_Witness ==
    /\ gpc = "blocks"
    /\ indata.arr.shape = <<2, 2, 2>>
    /\ indata.chunks = <<2>>
    /\ grids.outdims = <<2, 2>>
    /\ blockout[1].shape = <<2, 2, 2>>
    /\ \E n \in 1..8 : blockout[1].flat[n] \notin {0, NaN}

\* C10: regridding block by block, the tasks completing in any order, and
\* joining the results by block position gives the array _rgr_calc gives for
\* the whole time series, and the returned time axis is the input's, in its
\* order.
C10_BlockwiseIsWhole ==
    gpc = "returned" =>
      /\ dset.arr = _rgr_calc(indata.arr, A, grids.outdims)
      /\ dset.time = indata.time
      /\ \A n \in 1..(Len(dset.time) - 1) : dset.time[n] < dset.time[n+1]

C10_Witness ==
    /\ gpc = "returned"
    /\ completed = <<2, 1>>
    /\ dset.time = <<10, 20>>
    /\ dset.arr.shape[1] = 2
    /\ blockout[1] # blockout[2]

(***************************************************************************)
(*                     Properties of get_grid_coords                       *)
(***************************************************************************)

\* The index rectangle the margin leaves, and its perimeter cells.
RectRows == gp_bfr..(nc_lat.shape[1] - 1 - gp_bfr)
RectCols == gp_bfr..(nc_lat.shape[2] - 1 - gp_bfr)
Perimeter ==
    {c \in RectRows \X RectCols :
        \/ c[1] \in {gp_bfr, nc_lat.shape[1] - 1 - gp_bfr}
        \/ c[2] \in {gp_bfr, nc_lat.shape[2] - 1 - gp_bfr}}
\* The (lon, lat) pair of a cell, and the cell of a (lon, lat) pair.
PointOf(c) == <<CellLon(c[1], c[2]), CellLat(c[1], c[2])>>
CellOf(pt) == <<pt[2] - CellLat(0, 0), pt[1] - CellLon(0, 0)>>
Abs(n) == IF n < 0 THEN -n ELSE n
Adjacent(c, d) == Abs(c[1] - d[1]) + Abs(c[2] - d[2]) = 1

\* ring is a closed ring of (lon, lat) pairs that starts and ends at cell
\* (x, x), is at every other perimeter cell exactly once and nowhere else, and
\* steps from a cell to an adjacent one.
IsPerimeterRing(ring) ==
    LET n == Len(ring)
        start == <<gp_bfr, gp_bfr>>
    IN  /\ n >= 1
        /\ ring[1] = PointOf(start)
        /\ ring[n] = PointOf(start)
        /\ \A k \in 1..n : CellOf(ring[k]) \in Perimeter
        /\ \A c \in Perimeter :
              LET at == {k \in 1..n : ring[k] = PointOf(c)} IN
              IF c = start THEN at = {1, n} ELSE Cardinality(at) = 1
        /\ \A k \in 1..(n - 1) : Adjacent(CellOf(ring[k]), CellOf(ring[k+1]))

\* C14 as stated: for any margin x >= 1, the ring _domain returns is such a
\* ring around the rectangle rows x..Ny-1-x by columns x..Nx-1-x.
C14_DomainRing ==
    (dpc = "returned" /\ gp_bfr >= 1) => IsPerimeterRing(grid_coords.domain)

\* C14 amended: it is such a ring whenever the margin leaves at least two
\* rows and two columns (Ny - 2x >= 2 and Nx - 2x >= 2).
C14_DomainRingTwoByTwo ==
    (dpc = "returned" /\ gp_bfr >= 1
        /\ nc_lat.shape[1] - 2 * gp_bfr >= 2
        /\ nc_lat.shape[2] - 2 * gp_bfr >= 2)
    => IsPerimeterRing(grid_coords.domain)

C14_Witness ==
    /\ dpc = "returned"
    /\ gp_bfr = 15
    /\ nc_lat.shape = <<34, 33>>
    /\ Len(grid_coords.domain) = 11
    /\ grid_coords.domain[4] = <<CellLon(16, 17), CellLat(16, 17)>>

(***************************************************************************)
(*                       Properties of get_obs_data                        *)
(***************************************************************************)

\* s is strictly monotonic, and strictly ascending.
IsAscending(s) == \A k \in 1..(Len(s) - 1) : s[k] < s[k+1]
IsMonotonic(s) == IsAscending(s) \/ IsAscending(Reverse(s))
\* The lines of a coordinate array along the x axis and along the y axis: a
\* 1D array is its own line, a 2D array has its rows along x and its columns
\* along y.
AlongX(a) ==
    IF Ndim(a) = 1 THEN {a.flat}
    ELSE {RowAt(a, i, [k \in 1..a.shape[2] |-> k - 1]) :
             i \in 0..(a.shape[1] - 1)}
AlongY(a) ==
    IF Ndim(a) = 1 THEN {a.flat}
    ELSE {ColAt(a, [k \in 1..a.shape[1] |-> k - 1], j) :
             j \in 0..(a.shape[2] - 1)}

\* C15: when the longitudes read are monotonic along x and the latitudes
\* along y, 1D or 2D, the grid get_obs_data returns has its longitude
\* ascending along x and its latitude ascending along y.
C15_ObsGridAscending ==
    (/\ opc = "returned"
     /\ \A l \in AlongX(obs_lons) : IsMonotonic(l)
     /\ \A l \in AlongY(obs_lats) : IsMonotonic(l))
    => /\ \A l \in AlongX(outdata.grid.lon) : IsAscending(l)
       /\ \A l \in AlongY(outdata.grid.lat) : IsAscending(l)

\* A 2D grid read with descending longitudes comes back with its rows in
\* reversed order and its longitudes still descending along x.
C15_Witness ==
    /\ opc = "returned"
    /\ obs_lons = ObsLon(2, 2, 3, FALSE)
    /\ obs_lats = ObsLat(2, 2, 3, TRUE)
    /\ outdata.grid.lon = FlipUD(obs_lons)
    /\ RowAt(outdata.grid.lon, 0, <<0, 1, 2>>) = <<121, 111, 101>>
    /\ outdata.data.x = <<2, 1, 0>>

(***************************************************************************)
(*                        Properties of calc_stats                         *)
(***************************************************************************)

\* The participants the loop has visited.
Visited == Range(StatNames) \ Range(todo)

\* C11: a participant whose entry is None is passed over: the result has no
\* entry for it; every participant with data the loop has visited has an
\* entry with a 'domain' result, also when it comes after one without data;
\* and the call returns with exactly the participants with data in the result.
C11_NoneIsSkipped ==
    /\ \A m \in Visited :
          IF ddict[m] = NoData THEN m \notin DOMAIN st_data
          ELSE m \in DOMAIN st_data /\ "domain" \in DOMAIN st_data[m]
    /\ spc = "returned" =>
          /\ Visited = Range(StatNames)
          /\ DOMAIN st_data = {m \in Range(StatNames) : ddict[m] # NoData}

C11_Witness ==
    /\ spc = "returned"
    /\ ddict["obs1"] = NoData
    /\ ddict["mod1"] # NoData
    /\ DOMAIN st_data = {"mod1"}
    /\ st_data["mod1"].domain.arr.shape = <<2, 3>>

\* The last participant with data the loop has visited.
HasLast == \E m \in Visited : ddict[m] # NoData
Last ==
    LET k == CHOOSE i \in 1..Len(StatNames) :
                /\ StatNames[i] \in Visited
                /\ ddict[StatNames[i]] # NoData
                /\ \A j \in (i + 1)..Len(StatNames) :
                      StatNames[j] \notin Visited \/ ddict[StatNames[j]] = NoData
    IN  StatNames[k]
IsUniform(arr) == \A n \in 1..Len(arr.flat) : arr.flat[n] = arr.flat[1]

\* C12: for a field with one value in every cell and time step, the region
\* results of a participant are the same in pool mode and on the fast path:
\* what the pool run stored is what masking its domain result per region
\* gives, and what the fast run stored is what the statistic of its data
\* masked per region gives, for every configured region.
C12_PoolIsFastOnUniform ==
    (HasLast /\ HasRegions(regions) /\ IsUniform(ddict[Last].data.arr))
    => \A r \in Range(regions) :
          st_data[Last].regions[r] =
             IF pool
             THEN FastRegions(st_data[Last].domain, "var", mdata.masks)
                     .st_mdata[r]
             ELSE PoolRegions(mdata.data, "var", mdata.masks).st_mdata[r]

C12_Witness ==
    /\ spc = "returned"
    /\ pool
    /\ HasRegions(regions)
    /\ regions = <<"North", "Diagonal">>
    /\ ddict["mod1"] # NoData
    /\ IsUniform(ddict["mod1"].data.arr)
    /\ ddict["mod1"].data.arr.shape = <<2, 2, 3>>
    /\ st_data["mod1"].regions["North"].arr.shape = <<1, 3>>
    /\ st_data["mod1"].regions["Diagonal"].arr.shape = <<2, 2>>
    /\ st_data["mod1"].regions["Diagonal"].arr.flat[2] = NaN
    /\ st_data["mod1"].regions["Diagonal"].arr.flat[1] = UniformValue

\* The rows and the columns of a mask with a true cell, ascending.
MaskRows(mask) ==
    SortedSeq({i \in 0..(mask.shape[1] - 1) :
                  \E j \in 0..(mask.shape[2] - 1) : At2(mask, i, j)})
MaskCols(mask) ==
    SortedSeq({j \in 0..(mask.shape[2] - 1) :
                  \E i \in 0..(mask.shape[1] - 1) : At2(mask, i, j)})
\* What the last pass handed to get_masked_data: its data in pool mode, its
\* domain result on the fast path.
MaskedInput == IF pool THEN mdata.data.arr ELSE st_data[Last].domain.arr

\* out is x under the mask: at every index of the leading dimensions, the
\* rows and columns with a true cell, the value of x where the mask is true
\* and no value (NaN) where it is false.
IsMasked(out, x, mask) ==
    LET rows == MaskRows(mask)
        cols == MaskCols(mask)
        ny == mask.shape[1]
        nx == mask.shape[2]
        lead == Prod(x.shape) \div (ny * nx)
        nlead == IF rows = <<>> THEN 0 ELSE lead
    IN  /\ Prod(out.shape) = nlead * Len(rows) * Len(cols)
        /\ Len(out.flat) = Prod(out.shape)
        /\ out.shape[Len(out.shape) - 1] = Len(rows)
        /\ out.shape[Len(out.shape)] = Len(cols)
        /\ \A t \in 0..(nlead - 1), a \in 1..Len(rows), b \in 1..Len(cols) :
              LET v == out.flat[(t * Len(rows) + a - 1) * Len(cols) + b] IN
              IF At2(mask, rows[a], cols[b])
              THEN v = x.flat[(t * ny + rows[a]) * nx + cols[b] + 1]
              ELSE v = NaN

\* C13 as stated: get_masked_data puts the one 2D mask on every time step,
\* and the mean over what is left of a constant field is that constant.
C13_MaskedData ==
    (HasLast /\ HasRegions(regions))
    => \A r \in Range(regions) :
          /\ IsMasked(mdata.out[r].arr, MaskedInput, mdata.masks[r])
          /\ IsUniform(MaskedInput) =>
                NanMean(mdata.out[r].arr.flat) = MaskedInput.flat[1]

\* C13 amended: the mean is the constant when the mask is true somewhere.
C13_MaskedDataNonEmpty ==
    (HasLast /\ HasRegions(regions))
    => \A r \in Range(regions) :
          /\ IsMasked(mdata.out[r].arr, MaskedInput, mdata.masks[r])
          /\ (IsUniform(MaskedInput)
                /\ \E n \in 1..Len(mdata.masks[r].flat) : mdata.masks[r].flat[n])
             => NanMean(mdata.out[r].arr.flat) = MaskedInput.flat[1]

C13_Witness ==
    /\ spc = "returned"
    /\ pool
    /\ HasRegions(regions)
    /\ regions = <<"North", "Diagonal">>
    /\ HasLast
    /\ mdata.data.arr.shape = <<2, 2, 3>>
    /\ IsUniform(mdata.data.arr)
    /\ mdata.out["Diagonal"].arr.shape = <<2, 2, 2>>
    /\ mdata.out["Diagonal"].arr.flat[5] = UniformValue
    /\ mdata.out["Diagonal"].arr.flat[6] = NaN
    /\ mdata.out["North"].arr.shape = <<2, 1, 3>>
    /\ NanMean(mdata.out["North"].arr.flat) = UniformValue

====
